---------------------------- MODULE Spec2Model ----------------------------
(***************************************************************************)
(* Model of the expense tracker's registries (account_manager.py,          *)
(* category_manager.py) and ledger pipeline (data_handler.py).             *)
(*                                                                         *)
(* The persisted state is the content of the files the modules read and    *)
(* write.  account_manager.load_accounts and                               *)
(* category_manager.load_categories first try                              *)
(*   from data_handler import read_sheet_as_dict, get_backend              *)
(* data_handler.py defines no read_sheet_as_dict / write_dict_to_sheet, so *)
(* the import raises inside the try block, the bare except swallows it and *)
(* both registries always read and write their JSON file only.             *)
(*                                                                         *)
(* Registry records keep the fields the code branches on: name, status     *)
(* (accounts), type (categories) and is_default.  id, description and the  *)
(* account type are written but never read by any decision.                *)
(***************************************************************************)
EXTENDS Integers, Sequences, FiniteSets, TLC

VARIABLES
    accountsFile,     \* content of accounts.json (<<>>: absent or empty list)
    categoriesFile,   \* content of categories.json (<<>>: absent or empty list)
    registry,         \* the registry the behaviour exercises
    call,             \* history: the last call (operation, name, flag, result)
    given,            \* history: the list handed to the last save of the call;
                      \* for two adders, the <<writer, row>> of each add_entry
                      \* that returned True, in the order of the returns
    requested,        \* history: some call so far asked for is_default=True
    pc,               \* per writer: where its load -> mutate -> save cycle is
    local,            \* per writer: the list it loaded
    cycles,           \* number of cycles completed by the writers
    backend,          \* get_backend(): "csv" or "service_account"
    csvFile,          \* the table in expenses.csv (no columns: no file)
    sheet,            \* the table in the Google sheet
    rulesFile,        \* category_rules.json: <<keyword, category>> in dict order
    recurringFile     \* recurring.json: the list of recurring profiles

histVars == <<call, given, requested>>
writerVars == <<pc, local, cycles>>
ledgerVars == <<backend, csvFile, sheet, rulesFile, recurringFile>>
vars == <<accountsFile, categoriesFile, registry, call, given, requested,
          pc, local, cycles, backend, csvFile, sheet, rulesFile, recurringFile>>

-----------------------------------------------------------------------------
(* Bounds and input sets *)

MaxAccounts == 3
MaxCategories == 15
MaxCycles == 3
MaxLedger == 2
MaxUploadRows == 2
MaxAmount == 5
MaxProfiles == 2
MaxRules == 2
MaxItems == 2

Writers == {1, 2}

None == "None"

AccountNames == {"Main Account", "Savings"}
CategoryNames == {"Others", "Salary"}
NewCategoryNames == {"Others", "OTHERS", "Salary"}
Statuses == {"Active", "Inactive"}
CategoryTypes == {"Expense", "Income"}
OptBool == {"None", "True", "False"}

Max(S) == CHOOSE x \in S : \A y \in S : y <= x
Min(S) == CHOOSE x \in S : \A y \in S : x <= y

Defaults(items) == {i \in DOMAIN items : items[i].is_default}
DefaultsOfType(items, type) ==
    {i \in DOMAIN items : items[i].is_default /\ items[i].type = type}
ActiveOf(items) == {i \in DOMAIN items : items[i].status = "Active"}

RemoveAt(s, i) == [j \in 1..(Len(s) - 1) |-> IF j < i THEN s[j] ELSE s[j + 1]]

-----------------------------------------------------------------------------
(* account_manager.py *)

DefaultAccounts ==
    << [name |-> "Main Account", status |-> "Active", is_default |-> TRUE] >>

\* save_accounts, lines 59-63: for acc in reversed(accounts)
RECURSIVE ReverseScanAccounts(_, _, _)
ReverseScanAccounts(accounts, i, default_found) ==
    IF i = 0 THEN [accounts |-> accounts, default_found |-> default_found]
    ELSE IF accounts[i].is_default /\ ~default_found
         THEN ReverseScanAccounts(accounts, i - 1, TRUE)
         ELSE ReverseScanAccounts([accounts EXCEPT ![i].is_default = FALSE],
                                  i - 1, default_found)

\* mutant: the promotion ignores the status
PromoteFirstAccount(accounts) ==
    IF accounts = <<>> THEN accounts ELSE [accounts EXCEPT ![1].is_default = TRUE]

\* save_accounts, lines 66-70: promote the first Active account
PromoteFirstActive(accounts) ==
    LET active == {i \in DOMAIN accounts : accounts[i].status = "Active"}
    IN  IF active = {} THEN accounts
        ELSE [accounts EXCEPT ![Min(active)].is_default = TRUE]

\* mutant: the promotion no longer tests default_found
SaveAccountsAlwaysPromote(accounts) ==
    PromoteFirstActive(ReverseScanAccounts(accounts, Len(accounts), FALSE).accounts)

\* mutant: no account is promoted when no default survives
SaveAccountsNoPromote(accounts) ==
    ReverseScanAccounts(accounts, Len(accounts), FALSE).accounts

\* save_accounts: the list written to accounts.json
SaveAccounts(accounts) ==
    LET scan == ReverseScanAccounts(accounts, Len(accounts), FALSE)
    IN  IF ~scan.default_found /\ scan.accounts # <<>>
        THEN PromoteFirstActive(scan.accounts)
        ELSE scan.accounts

\* get_all_accounts / initialize_accounts: the list returned; when the file
\* is empty the seed is saved, so the file holds this list afterwards
GetAllAccounts(file) ==
    IF file = <<>> THEN SaveAccounts(DefaultAccounts) ELSE file

FirstNamed(items, name) ==
    LET hits == {i \in DOMAIN items : items[i].name = name}
    IN  IF hits = {} THEN 0 ELSE Min(hits)

UnsetAll(items) == [i \in DOMAIN items |-> [items[i] EXCEPT !.is_default = FALSE]]

\* create_account: ret, and the list handed to save_accounts when saved
create_account(accounts, name, is_default) ==
    IF \E i \in DOMAIN accounts : accounts[i].name = name
    THEN [ret |-> FALSE, saved |-> FALSE, list |-> accounts]
    ELSE [ret |-> TRUE, saved |-> TRUE,
          list |-> Append(IF is_default THEN UnsetAll(accounts) ELSE accounts,
                          [name |-> name, status |-> "Active",
                           is_default |-> is_default])]

\* update_account: only the first account named `name` is updated
update_account(accounts, name, new_name, status, is_default) ==
    LET i == FirstNamed(accounts, name)
        a1 == IF new_name # None
              THEN [accounts EXCEPT ![i].name = new_name] ELSE accounts
        a2 == IF status # None THEN [a1 EXCEPT ![i].status = status] ELSE a1
        a3 == IF is_default = "None" THEN a2
              ELSE IF is_default = "True"
                   THEN [UnsetAll(a2) EXCEPT ![i].is_default = TRUE]
                   ELSE [a2 EXCEPT ![i].is_default = FALSE]
    IN  IF i = 0 THEN [ret |-> FALSE, saved |-> FALSE, list |-> accounts]
        ELSE [ret |-> TRUE, saved |-> TRUE, list |-> a3]

\* mutant: the default account is not protected
delete_account_unguarded(accounts, name) ==
    LET i == FirstNamed(accounts, name)
    IN  IF i = 0 THEN [ret |-> FALSE, saved |-> FALSE, list |-> accounts]
        ELSE [ret |-> TRUE, saved |-> TRUE, list |-> RemoveAt(accounts, i)]

\* delete_account: the first account named `name`; refused when it is default
delete_account(accounts, name) ==
    LET i == FirstNamed(accounts, name)
    IN  IF i = 0 \/ accounts[i].is_default
        THEN [ret |-> FALSE, saved |-> FALSE, list |-> accounts]
        ELSE [ret |-> TRUE, saved |-> TRUE, list |-> RemoveAt(accounts, i)]

\* set_default_account
set_default_account(accounts, name) ==
    update_account(accounts, name, None, None, "True")

-----------------------------------------------------------------------------
(* category_manager.py *)

\* initialize_categories, lines 12-29
DefaultCategories ==
    << [name |-> "Food", type |-> "Expense", is_default |-> FALSE],
       [name |-> "Transport", type |-> "Expense", is_default |-> FALSE],
       [name |-> "Entertainment", type |-> "Expense", is_default |-> FALSE],
       [name |-> "MEDICALS", type |-> "Expense", is_default |-> FALSE],
       [name |-> "Groceries", type |-> "Expense", is_default |-> FALSE],
       [name |-> "Others", type |-> "Expense", is_default |-> TRUE],
       [name |-> "Shopping", type |-> "Expense", is_default |-> FALSE],
       [name |-> "Bills and Utilities", type |-> "Expense", is_default |-> FALSE],
       [name |-> "Education", type |-> "Expense", is_default |-> FALSE],
       [name |-> "Rent", type |-> "Expense", is_default |-> FALSE],
       [name |-> "Home", type |-> "Expense", is_default |-> FALSE],
       [name |-> "Chit", type |-> "Expense", is_default |-> FALSE],
       [name |-> "Insurance", type |-> "Expense", is_default |-> FALSE],
       [name |-> "Salary", type |-> "Income", is_default |-> FALSE],
       [name |-> "Investment", type |-> "Income", is_default |-> FALSE] >>

\* str.lower() on the names the model uses
Lower(name) ==
    CASE name = "Food" -> "food"
      [] name = "Transport" -> "transport"
      [] name = "Entertainment" -> "entertainment"
      [] name = "MEDICALS" -> "medicals"
      [] name = "Groceries" -> "groceries"
      [] name = "Others" -> "others"
      [] name = "OTHERS" -> "others"
      [] name = "Shopping" -> "shopping"
      [] name = "Bills and Utilities" -> "bills and utilities"
      [] name = "Education" -> "education"
      [] name = "Rent" -> "rent"
      [] name = "Home" -> "home"
      [] name = "Chit" -> "chit"
      [] name = "Insurance" -> "insurance"
      [] name = "Salary" -> "salary"
      [] name = "Investment" -> "investment"
      [] name = "Gifts" -> "gifts"
      [] OTHER -> name

\* save_categories, lines 70-77: for cat in reversed(categories)
RECURSIVE ReverseScanCategories(_, _, _, _)
ReverseScanCategories(categories, i, expense_default_found, income_default_found) ==
    IF i = 0
    THEN [categories |-> categories,
          expense_default_found |-> expense_default_found]
    ELSE IF ~categories[i].is_default
         THEN ReverseScanCategories(categories, i - 1, expense_default_found,
                                    income_default_found)
    ELSE IF categories[i].type = "Expense" /\ ~expense_default_found
         THEN ReverseScanCategories(categories, i - 1, TRUE, income_default_found)
    ELSE IF categories[i].type = "Income" /\ ~income_default_found
         THEN ReverseScanCategories(categories, i - 1, expense_default_found, TRUE)
    ELSE ReverseScanCategories([categories EXCEPT ![i].is_default = FALSE],
                               i - 1, expense_default_found, income_default_found)

\* save_categories, lines 80-84: the first category named "Others" is promoted
PromoteOthers(categories) ==
    LET i == FirstNamed(categories, "Others")
    IN  IF i = 0 THEN categories ELSE [categories EXCEPT ![i].is_default = TRUE]

\* save_categories: the list written to categories.json
SaveCategories(categories) ==
    LET scan == ReverseScanCategories(categories, Len(categories), FALSE, FALSE)
    IN  IF ~scan.expense_default_found
        THEN PromoteOthers(scan.categories)
        ELSE scan.categories

\* get_all_categories / initialize_categories
GetAllCategories(file) ==
    IF file = <<>> THEN SaveCategories(DefaultCategories) ELSE file

UnsetType(items, type) ==
    [i \in DOMAIN items |->
        IF items[i].type = type THEN [items[i] EXCEPT !.is_default = FALSE]
        ELSE items[i]]

\* mutant: the name check is case-sensitive
create_category_exact(categories, name, category_type, is_default) ==
    IF \E i \in DOMAIN categories : categories[i].name = name
    THEN [ret |-> FALSE, saved |-> FALSE, list |-> categories]
    ELSE [ret |-> TRUE, saved |-> TRUE,
          list |-> Append(IF is_default THEN UnsetType(categories, category_type)
                          ELSE categories,
                          [name |-> name, type |-> category_type,
                           is_default |-> is_default])]

\* create_category: the name check ignores case
create_category(categories, name, category_type, is_default) ==
    IF \E i \in DOMAIN categories : Lower(categories[i].name) = Lower(name)
    THEN [ret |-> FALSE, saved |-> FALSE, list |-> categories]
    ELSE [ret |-> TRUE, saved |-> TRUE,
          list |-> Append(IF is_default THEN UnsetType(categories, category_type)
                          ELSE categories,
                          [name |-> name, type |-> category_type,
                           is_default |-> is_default])]

\* update_category: only the first category named old_name (exact match)
update_category(categories, old_name, new_name, category_type, is_default) ==
    LET i == FirstNamed(categories, old_name)
        c1 == IF new_name # None
              THEN [categories EXCEPT ![i].name = new_name] ELSE categories
        c2 == IF category_type # None
              THEN [c1 EXCEPT ![i].type = category_type] ELSE c1
        c3 == IF is_default = "None" THEN c2
              ELSE IF is_default = "True"
                   THEN [UnsetType(c2, c2[i].type) EXCEPT ![i].is_default = TRUE]
                   ELSE [c2 EXCEPT ![i].is_default = FALSE]
    IN  IF i = 0 THEN [ret |-> FALSE, saved |-> FALSE, list |-> categories]
        ELSE [ret |-> TRUE, saved |-> TRUE, list |-> c3]

\* delete_category: unconditional
delete_category(categories, name) ==
    LET i == FirstNamed(categories, name)
    IN  IF i = 0 THEN [ret |-> FALSE, saved |-> FALSE, list |-> categories]
        ELSE [ret |-> TRUE, saved |-> TRUE, list |-> RemoveAt(categories, i)]

\* set_default_category
set_default_category(categories, name) ==
    update_category(categories, name, None, None, "True")

-----------------------------------------------------------------------------
(* data_handler.py: the ledger and its two stores *)

COLUMNS == <<"Date", "Time", "Type", "Category", "Amount", "Payment Method",
             "Account", "Description", "Source", "Tags">>
ColumnSet == {COLUMNS[i] : i \in DOMAIN COLUMNS}
TextColumns == ColumnSet \ {"Date", "Amount"}

\* a stored table: its header and its rows (functions on the header)
NoTable == [columns |-> {}, rows |-> <<>>]

\* pandas' missing value in a text column
NaN == "NaN"

\* datetime.date values are <<year, month, day>>
\* str(date), as df_store["Date"].astype(str) writes it
DateStr(d) ==
    CASE d = <<2024, 1, 15>> -> "2024-01-15"
      [] d = <<2024, 2, 1>> -> "2024-02-01"
      [] d = <<2024, 1, 2>> -> "2024-01-02"
      [] d = <<2023, 1, 15>> -> "2023-01-15"

\* pd.to_datetime(...).dt.date of a stored ISO string
ParseDate(str) ==
    CASE str = "2024-01-15" -> <<2024, 1, 15>>
      [] str = "2024-02-01" -> <<2024, 2, 1>>
      [] str = "2024-01-02" -> <<2024, 1, 2>>
      [] str = "2023-01-15" -> <<2023, 1, 15>>

\* pd.to_datetime(..., dayfirst=True).dt.date of an uploaded cell; NoDate
\* stands for the call raising on a cell that is no date
NoDate == <<>>
ParseDayFirst(cell) ==
    CASE cell = "15/01/2024" -> <<2024, 1, 15>>
      [] cell = "01/02/2024" -> <<2024, 2, 1>>
      [] OTHER -> NoDate

\* get_default_account: the list get_all_accounts returns is searched
DefaultAccountName(file) ==
    LET accounts == GetAllAccounts(file)
    IN  IF Defaults(accounts) # {} THEN accounts[Min(Defaults(accounts))].name
        ELSE IF ActiveOf(accounts) # {} THEN accounts[Min(ActiveOf(accounts))].name
        ELSE "Main Account"

\* read_csv: an empty field of a text column is read as NaN
ReadCsvCell(column, value) ==
    IF column \in TextColumns /\ value = "" THEN NaN ELSE value

\* to_csv: NaN is written as an empty field
WriteCsvCell(column, value) ==
    IF column \in TextColumns /\ value = NaN THEN "" ELSE value

\* load_data, lines 115-134: the CSV branch.  A missing Account column is
\* migrated first, then every other missing column becomes "".
LoadCsv(table, accounts) ==
    IF table.columns = {} \/ ~({"Date", "Amount"} \subseteq table.columns)
    THEN [rows |-> <<>>, accounts |-> accounts]
    ELSE LET migrate == "Account" \notin table.columns
             cell(row, column) ==
                 IF column = "Date" THEN ParseDate(row[column])
                 ELSE IF column \in table.columns
                      THEN ReadCsvCell(column, row[column])
                 ELSE IF column = "Account" THEN DefaultAccountName(accounts)
                 ELSE ""
         IN  [rows |-> [i \in DOMAIN table.rows |->
                           [column \in ColumnSet |-> cell(table.rows[i], column)]],
              accounts |-> IF migrate THEN GetAllAccounts(accounts) ELSE accounts]

\* load_data, lines 87-107: the sheet branch.  Missing columns, Account
\* included, become "" before migrate_data_for_accounts looks for Account.
LoadSheet(table, accounts) ==
    IF table.rows = <<>> THEN [rows |-> <<>>, accounts |-> accounts]
    ELSE LET cell(row, column) ==
                 IF column \notin table.columns THEN ""
                 ELSE IF column = "Date" THEN ParseDate(row[column])
                 ELSE row[column]
         IN  [rows |-> [i \in DOMAIN table.rows |->
                           [column \in ColumnSet |-> cell(table.rows[i], column)]],
              accounts |-> accounts]

\* load_data.  remote is what the sheet client does in this call: "ok",
\* "none" (get_google_sheet_client returns None) or "raise".
load_data(remote) ==
    IF backend = "service_account" /\ remote = "ok"
    THEN LoadSheet(sheet, accountsFile)
    ELSE IF backend = "service_account" /\ remote = "raise"
    THEN [rows |-> <<>>, accounts |-> accountsFile]
    ELSE LoadCsv(csvFile, accountsFile)

\* df_store: Date as text
StoreTable(df, csv) ==
    [columns |-> ColumnSet,
     rows |-> [i \in DOMAIN df |->
                 [column \in ColumnSet |->
                     IF column = "Date" THEN DateStr(df[i][column])
                     ELSE IF csv THEN WriteCsvCell(column, df[i][column])
                     ELSE df[i][column]]]]

\* save_data.  remote: "ok", "none", "raise" (before sheet.clear()) or
\* "cleared" (an append raises after sheet.clear()).  The local file is
\* written only when the sheet write did not return.
save_data(df, remote) ==
    IF backend = "service_account" /\ remote = "ok"
    THEN [sheet |-> StoreTable(df, FALSE), csvFile |-> csvFile]
    ELSE IF backend = "service_account" /\ remote = "cleared"
    THEN [sheet |-> NoTable, csvFile |-> StoreTable(df, TRUE)]
    ELSE [sheet |-> sheet, csvFile |-> StoreTable(df, TRUE)]

LoadOutcomes == IF backend = "csv" THEN {"ok"} ELSE {"ok", "none", "raise"}
SaveOutcomes ==
    IF backend = "csv" THEN {"ok"} ELSE {"ok", "none", "raise", "cleared"}

\* one ledger row, a function on the canonical columns
Entry(date, time, type, category, amount, method, account, description, source, tags) ==
    [column \in ColumnSet |->
        CASE column = "Date" -> date
          [] column = "Time" -> time
          [] column = "Type" -> type
          [] column = "Category" -> category
          [] column = "Amount" -> amount
          [] column = "Payment Method" -> method
          [] column = "Account" -> account
          [] column = "Description" -> description
          [] column = "Source" -> source
          [] column = "Tags" -> tags]

\* get_pending_recurring: every profile when the frame is empty; otherwise the
\* profiles, in their order, whose name no row of now's month and year has as
\* its Description.  now is <<year, month, day>>.
get_pending_recurring(df, profiles, now) ==
    LET current_month_data ==
            SelectSeq(df, LAMBDA row : /\ row["Date"][2] = now[2]
                                       /\ row["Date"][1] = now[1])
        is_paid(p) ==
            \E i \in DOMAIN current_month_data :
               current_month_data[i]["Description"] = p.name
    IN  IF df = <<>> THEN profiles
        ELSE SelectSeq(profiles, LAMBDA p : ~is_paid(p))

\* add_entry: load, append one row, save, return True
add_entry(e, loaded) == Append(loaded, e)

\* pd.to_numeric(errors='coerce').fillna(0.0): a numeric cell is <<n>>, any
\* other cell <<>>
ToNumeric(cell) == IF cell = <<>> THEN 0 ELSE cell[1]

\* c.strip() on an uploaded header
Strip(header) ==
    CASE header = " Date" -> "Date"
      [] header = "Narration " -> "Narration"
      [] OTHER -> header

\* process_upload, lines 314-321: the generic header heuristics
\* ("date" without "value" -> Date; "amount" | "debit" | "cost" -> Amount;
\*  "desc" | "particulars" | "narration" -> Description)
ColumnMap(col) ==
    CASE col \in {"Date", "Txn Date"} -> "Date"
      [] col \in {"Amount", "Debit"} -> "Amount"
      [] col \in {"Description", "Particulars", "Narration"} -> "Description"
      [] OTHER -> col

\* the characters of the strings that reach str.contains
Chars(str) ==
    CASE str = "AMAZON purchase" -> <<"A", "M", "A", "Z", "O", "N", " ", "p", "u", "r", "c", "h", "a", "s", "e">>
      [] str = "Amazon refund" -> <<"A", "m", "a", "z", "o", "n", " ", "r", "e", "f", "u", "n", "d">>
      [] str = "Rent" -> <<"R", "e", "n", "t">>
      [] str = "rent" -> <<"r", "e", "n", "t">>
      [] str = "Salary" -> <<"S", "a", "l", "a", "r", "y">>
      [] str = "" -> <<>>
      [] str = "AMAZON INDIA" -> <<"A", "M", "A", "Z", "O", "N", " ", "I", "N", "D", "I", "A">>
      [] str = "Amazon.in order" -> <<"A", "m", "a", "z", "o", "n", ".", "i", "n", " ", "o", "r", "d", "e", "r">>
      [] str = "Uber" -> <<"U", "b", "e", "r">>
      [] str = "amazon" -> <<"a", "m", "a", "z", "o", "n">>
      [] str = "amazon.in" -> <<"a", "m", "a", "z", "o", "n", ".", "i", "n">>
      [] str = "india" -> <<"i", "n", "d", "i", "a">>
      [] str = "purchase" -> <<"p", "u", "r", "c", "h", "a", "s", "e">>

\* re.IGNORECASE (case=False): letters are compared in lower case
IgnoreCase(c) ==
    CASE c = "A" -> "a"
      [] c = "B" -> "b"
      [] c = "C" -> "c"
      [] c = "D" -> "d"
      [] c = "E" -> "e"
      [] c = "F" -> "f"
      [] c = "G" -> "g"
      [] c = "H" -> "h"
      [] c = "I" -> "i"
      [] c = "J" -> "j"
      [] c = "K" -> "k"
      [] c = "L" -> "l"
      [] c = "M" -> "m"
      [] c = "N" -> "n"
      [] c = "O" -> "o"
      [] c = "P" -> "p"
      [] c = "Q" -> "q"
      [] c = "R" -> "r"
      [] c = "S" -> "s"
      [] c = "T" -> "t"
      [] c = "U" -> "u"
      [] c = "V" -> "v"
      [] c = "W" -> "w"
      [] c = "X" -> "x"
      [] c = "Y" -> "y"
      [] c = "Z" -> "z"
      [] OTHER -> c

\* re.search(pat, text, re.IGNORECASE) for a pattern of literal characters and
\* ".", which stands for any one character
Search(text, pat) ==
    \E i \in 1..(Len(text) - Len(pat) + 1) :
       \A j \in DOMAIN pat :
          pat[j] = "." \/ IgnoreCase(pat[j]) = IgnoreCase(text[i + j - 1])

\* the keyword as a literal, case-insensitive substring of the description
ContainsLiteral(description, keyword) ==
    /\ description # NaN
    /\ LET text == Chars(description)
           pat == Chars(keyword)
       IN  \E i \in 1..(Len(text) - Len(pat) + 1) :
              \A j \in DOMAIN pat : IgnoreCase(pat[j]) = IgnoreCase(text[i + j - 1])

\* Series.str.contains(keyword, case=False, na=False): regex=True by default
Contains(description, keyword) ==
    /\ description # NaN
    /\ Search(Chars(description), Chars(keyword))

\* apply_categorization on one row: every rule in dict order overwrites
RECURSIVE ApplyRules(_, _, _)
ApplyRules(row, rules, k) ==
    IF k > Len(rules) THEN row
    ELSE ApplyRules(IF Contains(row["Description"], rules[k][1])
                    THEN [row EXCEPT !["Category"] = rules[k][2]] ELSE row,
                    rules, k + 1)

apply_categorization(df, rules) ==
    [i \in DOMAIN df |-> ApplyRules(df[i], rules, 1)]

Triple(row) == <<row["Date"], row["Amount"], row["Description"]>>

\* mutant: duplicates are judged on every column
drop_duplicates_all_columns(df) ==
    LET keep == {i \in DOMAIN df : \A j \in 1..(i - 1) : df[j] # df[i]}
        RECURSIVE Pick(_)
        Pick(i) == IF i > Len(df) THEN <<>>
                   ELSE IF i \in keep THEN <<df[i]>> \o Pick(i + 1)
                   ELSE Pick(i + 1)
    IN  Pick(1)

\* drop_duplicates(subset=["Date", "Amount", "Description"], keep='first')
drop_duplicates(df) ==
    LET keep == {i \in DOMAIN df :
                    \A j \in 1..(i - 1) : Triple(df[j]) # Triple(df[i])}
        RECURSIVE Pick(_)
        Pick(i) == IF i > Len(df) THEN <<>>
                   ELSE IF i \in keep THEN <<df[i]>> \o Pick(i + 1)
                   ELSE Pick(i + 1)
    IN  Pick(1)

\* process_upload, lines 306-307: Type of a bank-statement row
BankType(withdrawal, deposit) == IF deposit > 0 THEN "Income" ELSE "Expense"

\* mutant: the deposit is netted against the withdrawal
BankAmountNetted(withdrawal, deposit) == withdrawal - deposit

\* process_upload, line 310: Amount of a bank-statement row
BankAmount(withdrawal, deposit) == withdrawal + deposit

\* process_upload, lines 285-368: the uploaded sheet as rows of the
\* canonical columns.  raise: a step raised; reached: get_default_account
\* (line 351) ran before that.
NewRows(file, accounts, rules) ==
    LET cols == {Strip(h) : h \in file.columns}
        raw(row, col) == row[CHOOSE h \in file.columns : Strip(h) = col]
        bank == {"Withdrawal Amt.", "Deposit Amt."} \subseteq cols
        mapped == IF bank THEN cols \cup {"Description", "Type", "Amount"}
                  ELSE {ColumnMap(c) : c \in cols}
        source(col) == CHOOSE c \in cols : ColumnMap(c) = col
        date(row) == ParseDayFirst(IF bank THEN raw(row, "Date")
                                   ELSE raw(row, source("Date")))
        withdrawal(row) == ToNumeric(raw(row, "Withdrawal Amt."))
        deposit(row) == ToNumeric(raw(row, "Deposit Amt."))
        type(row) == IF bank THEN BankType(withdrawal(row), deposit(row))
                     ELSE "Expense"
        amount(row) == IF bank THEN BankAmount(withdrawal(row), deposit(row))
                       ELSE ToNumeric(raw(row, source("Amount")))
        description(row) ==
            IF bank THEN raw(row, "Narration")
            ELSE IF "Description" \in mapped THEN raw(row, source("Description"))
            ELSE "Imported Transaction"
        account == DefaultAccountName(accounts)
        entry(row) == Entry(date(row), "00:00", type(row), "Uncategorized",
                            amount(row), "Transfer", account, description(row),
                            "Upload", "")
        failed(reached) == [raise |-> TRUE, reached |-> reached, rows |-> <<>>]
    IN  IF bank /\ ~({"Date", "Narration"} \subseteq cols) THEN failed(FALSE)
        ELSE IF "Date" \in mapped
                /\ \E i \in DOMAIN file.rows : date(file.rows[i]) = NoDate
        THEN failed(FALSE)
        ELSE IF ~({"Date", "Amount"} \subseteq mapped) THEN failed(TRUE)
        ELSE [raise |-> FALSE, reached |-> TRUE,
              rows |-> apply_categorization(
                          [i \in DOMAIN file.rows |-> entry(file.rows[i])], rules)]

\* mutant: the rows parsed before the exception are merged and saved
process_upload_partial(file, existing_df, accounts, rules) ==
    LET parsed(row) ==
            \A h \in file.columns :
               ColumnMap(Strip(h)) = "Date" => ParseDayFirst(row[h]) # NoDate
        good == [columns |-> file.columns, rows |-> SelectSeq(file.rows, parsed)]
        new_df == NewRows(good, accounts, rules)
        combined_df == drop_duplicates(existing_df \o new_df.rows)
        added_count == Len(combined_df) - Len(existing_df)
        raise == NewRows(file, accounts, rules).raise
    IN  [count |-> IF raise THEN 0 ELSE added_count, error |-> raise,
         save |-> added_count > 0, df |-> combined_df, reached |-> TRUE]

\* process_upload, lines 371-384: merge, deduplicate, count; the ledger is
\* saved only when the count is positive
process_upload(file, existing_df, accounts, rules) ==
    LET new_df == NewRows(file, accounts, rules)
        combined_df == drop_duplicates(existing_df \o new_df.rows)
        added_count == Len(combined_df) - Len(existing_df)
    IN  IF new_df.raise
        THEN [count |-> 0, error |-> TRUE, save |-> FALSE, df |-> existing_df,
              reached |-> new_df.reached]
        ELSE [count |-> added_count, error |-> FALSE, save |-> added_count > 0,
              df |-> combined_df, reached |-> TRUE]

\* the stored ledger the selected backend reads
Ledger == IF backend = "service_account" THEN sheet ELSE csvFile

-----------------------------------------------------------------------------
(* Actions on the account registry: one per public function *)

NoCall == [op |-> "none", reg |-> "none", name |-> None, is_default |-> "None",
           ret |-> FALSE, saved |-> FALSE]

\* mutant: save_accounts lets the failure of the primary write propagate, so
\* accounts.json is only written under the local backend
AccountCallPrimaryOnly(op, name, is_default, r) ==
    /\ accountsFile' = IF backend = "service_account" THEN accountsFile
                       ELSE IF r.saved THEN SaveAccounts(r.list)
                       ELSE GetAllAccounts(accountsFile)
    /\ call' = [op |-> op, reg |-> "accounts", name |-> name,
                is_default |-> is_default, ret |-> r.ret, saved |-> r.saved]
    /\ given' = IF r.saved THEN r.list
                ELSE IF accountsFile = <<>> THEN DefaultAccounts ELSE <<>>
    /\ requested' = (requested \/ is_default = "True")
    /\ UNCHANGED <<categoriesFile, registry, writerVars, ledgerVars>>

\* load_accounts / save_accounts under either backend: the import of
\* read_sheet_as_dict / write_dict_to_sheet from data_handler raises (the module
\* defines neither), the bare except swallows it, and accounts.json is read or
\* written; so the call does not depend on backend.
AccountCall(op, name, is_default, r) ==
    /\ accountsFile' = IF r.saved THEN SaveAccounts(r.list)
                       ELSE GetAllAccounts(accountsFile)
    /\ call' = [op |-> op, reg |-> "accounts", name |-> name,
                is_default |-> is_default, ret |-> r.ret, saved |-> r.saved]
    /\ given' = IF r.saved THEN r.list
                ELSE IF accountsFile = <<>> THEN DefaultAccounts ELSE <<>>
    /\ requested' = (requested \/ is_default = "True")
    /\ UNCHANGED <<categoriesFile, registry, writerVars, ledgerVars>>

CreateAccount(name, is_default) ==
    /\ registry = "accounts"
    /\ Len(create_account(GetAllAccounts(accountsFile), name, is_default).list)
          <= MaxAccounts
    /\ AccountCall("create", name,
                   IF is_default THEN "True" ELSE "False",
                   create_account(GetAllAccounts(accountsFile), name, is_default))

UpdateAccount(name, new_name, status, is_default) ==
    /\ registry = "accounts"
    /\ AccountCall("update", name, is_default,
                   update_account(GetAllAccounts(accountsFile), name, new_name,
                                  status, is_default))

DeleteAccount(name) ==
    /\ registry = "accounts"
    /\ AccountCall("delete", name, "None",
                   delete_account(GetAllAccounts(accountsFile), name))

SetDefaultAccount(name) ==
    /\ registry = "accounts"
    /\ AccountCall("set_default", name, "True",
                   set_default_account(GetAllAccounts(accountsFile), name))

-----------------------------------------------------------------------------
(* Actions on the category registry *)

CategoryCall(op, name, is_default, r) ==
    /\ categoriesFile' = IF r.saved THEN SaveCategories(r.list)
                         ELSE GetAllCategories(categoriesFile)
    /\ call' = [op |-> op, reg |-> "categories", name |-> name,
                is_default |-> is_default, ret |-> r.ret, saved |-> r.saved]
    /\ given' = IF r.saved THEN r.list
                ELSE IF categoriesFile = <<>> THEN DefaultCategories ELSE <<>>
    /\ requested' = (requested \/ is_default = "True")
    /\ UNCHANGED <<accountsFile, registry, writerVars, ledgerVars>>

CreateCategory(name, category_type, is_default) ==
    /\ registry = "categories"
    /\ Len(create_category(GetAllCategories(categoriesFile), name, category_type,
                           is_default).list) <= MaxCategories
    /\ CategoryCall("create", name,
                    IF is_default THEN "True" ELSE "False",
                    create_category(GetAllCategories(categoriesFile), name,
                                    category_type, is_default))

UpdateCategory(old_name, new_name, category_type, is_default) ==
    /\ registry = "categories"
    /\ CategoryCall("update", old_name, is_default,
                    update_category(GetAllCategories(categoriesFile), old_name,
                                    new_name, category_type, is_default))

DeleteCategory(name) ==
    /\ registry = "categories"
    /\ CategoryCall("delete", name, "None",
                    delete_category(GetAllCategories(categoriesFile), name))

SetDefaultCategory(name) ==
    /\ registry = "categories"
    /\ CategoryCall("set_default", name, "True",
                    set_default_category(GetAllCategories(categoriesFile), name))

-----------------------------------------------------------------------------


-----------------------------------------------------------------------------
(* Two writers on one registry, no lock around load -> mutate -> save.      *)
(* The steps are the file accesses: load_* reads the file, save_* writes    *)
(* it; the mutation in between works on the writer's own list.  The call's *)
(* arguments are read only by the mutation, so they are drawn there.        *)

File == IF registry = "accounts" THEN accountsFile ELSE categoriesFile

WriteFile(list) ==
    /\ accountsFile' = IF registry = "accounts" THEN list ELSE accountsFile
    /\ categoriesFile' = IF registry = "categories" THEN list ELSE categoriesFile

Seed == IF registry = "accounts" THEN DefaultAccounts ELSE DefaultCategories

Save(list) ==
    IF registry = "accounts" THEN SaveAccounts(list) ELSE SaveCategories(list)

\* get_all_*: load_*(); an empty result goes on to initialize_*
WriterLoad(w) ==
    /\ pc[w] = "idle"
    /\ cycles < MaxCycles
    /\ local' = [local EXCEPT ![w] = File]
    /\ pc' = [pc EXCEPT ![w] = IF File = <<>> THEN "initialize" ELSE "loaded"]
    /\ UNCHANGED <<accountsFile, categoriesFile, registry, histVars, cycles,
                   ledgerVars>>

\* initialize_*: load_*() again; still empty goes on to save the seed
WriterInitialize(w) ==
    /\ pc[w] = "initialize"
    /\ local' = [local EXCEPT ![w] = File]
    /\ pc' = [pc EXCEPT ![w] = IF File = <<>> THEN "seed" ELSE "loaded"]
    /\ UNCHANGED <<accountsFile, categoriesFile, registry, histVars, cycles,
                   ledgerVars>>

\* initialize_*: save_*(defaults), return the defaults
WriterSeed(w) ==
    /\ pc[w] = "seed"
    /\ WriteFile(Save(Seed))
    /\ local' = [local EXCEPT ![w] = Save(Seed)]
    /\ pc' = [pc EXCEPT ![w] = "loaded"]
    /\ UNCHANGED <<registry, histVars, cycles, ledgerVars>>

\* the mutation of the loaded list and, unless the call returns early, save_*
WriterFinish(w, r) ==
    /\ pc[w] = "loaded"
    /\ Len(r.list) <= (IF registry = "accounts" THEN MaxAccounts ELSE MaxCategories)
    /\ IF r.saved THEN WriteFile(Save(r.list))
       ELSE UNCHANGED <<accountsFile, categoriesFile>>
    /\ pc' = [pc EXCEPT ![w] = "idle"]
    /\ local' = [local EXCEPT ![w] = <<>>]
    /\ cycles' = cycles + 1
    /\ UNCHANGED <<registry, histVars, ledgerVars>>

WriterAccountCall(w) ==
    /\ registry = "accounts"
    /\ \/ \E name \in AccountNames, is_default \in BOOLEAN :
             WriterFinish(w, create_account(local[w], name, is_default))
       \/ \E name \in AccountNames, new_name \in AccountNames \cup {None},
             status \in Statuses \cup {None}, is_default \in OptBool :
             WriterFinish(w, update_account(local[w], name, new_name, status,
                                            is_default))
       \/ \E name \in AccountNames :
             WriterFinish(w, delete_account(local[w], name))
       \/ \E name \in AccountNames :
             WriterFinish(w, set_default_account(local[w], name))

WriterCategoryCall(w) ==
    /\ registry = "categories"
    /\ \/ \E name \in NewCategoryNames, category_type \in CategoryTypes,
             is_default \in BOOLEAN :
             WriterFinish(w, create_category(local[w], name, category_type,
                                             is_default))
       \/ \E old_name \in CategoryNames, new_name \in CategoryNames \cup {None},
             category_type \in CategoryTypes \cup {None}, is_default \in OptBool :
             WriterFinish(w, update_category(local[w], old_name, new_name,
                                             category_type, is_default))
       \/ \E name \in CategoryNames :
             WriterFinish(w, delete_category(local[w], name))
       \/ \E name \in CategoryNames :
             WriterFinish(w, set_default_category(local[w], name))

InitStores ==
    /\ accountsFile = <<>>
    /\ categoriesFile = <<>>
    /\ csvFile = NoTable
    /\ sheet = NoTable
    /\ rulesFile = <<>>
    /\ recurringFile = <<>>

Init ==
    /\ InitStores
    /\ backend = "csv"
    /\ registry \in {"accounts", "categories"}
    /\ call = NoCall
    /\ given = <<>>
    /\ requested = FALSE
    /\ pc = [w \in Writers |-> "idle"]
    /\ local = [w \in Writers |-> <<>>]
    /\ cycles = 0

Next ==
    \/ \E name \in AccountNames, is_default \in BOOLEAN :
          CreateAccount(name, is_default)
    \/ \E name \in AccountNames, new_name \in AccountNames \cup {None},
          status \in Statuses \cup {None}, is_default \in OptBool :
          UpdateAccount(name, new_name, status, is_default)
    \/ \E name \in AccountNames : DeleteAccount(name)
    \/ \E name \in AccountNames : SetDefaultAccount(name)
    \/ \E name \in NewCategoryNames, category_type \in CategoryTypes,
          is_default \in BOOLEAN :
          CreateCategory(name, category_type, is_default)
    \/ \E old_name \in CategoryNames, new_name \in CategoryNames \cup {None},
          category_type \in CategoryTypes \cup {None}, is_default \in OptBool :
          UpdateCategory(old_name, new_name, category_type, is_default)
    \/ \E name \in CategoryNames : DeleteCategory(name)
    \/ \E name \in CategoryNames : SetDefaultCategory(name)

Spec == Init /\ [][Next]_vars

NextWriters ==
    \E w \in Writers :
        \/ WriterLoad(w)
        \/ WriterInitialize(w)
        \/ WriterSeed(w)
        \/ WriterAccountCall(w)
        \/ WriterCategoryCall(w)

\* The registries with the remote backend selected
InitDurability ==
    /\ InitStores
    /\ backend = "service_account"
    /\ registry \in {"accounts", "categories"}
    /\ call = NoCall
    /\ given = <<>>
    /\ requested = FALSE
    /\ pc = [w \in Writers |-> "idle"]
    /\ local = [w \in Writers |-> <<>>]
    /\ cycles = 0

SpecDurability == InitDurability /\ [][Next]_vars

SpecWriters == Init /\ [][NextWriters]_vars

-----------------------------------------------------------------------------
(* Actions on the ledger *)

Today == <<2024, 1, 15>>

\* the rows add_entry is called with: the manual form (app.py 312) and
\* "Mark as Paid" of a recurring profile (app.py 260-269)
AddInputs ==
    { Entry(Today, "00:00", "Expense", "Rent", 50, "Cash", "Main Account", "Rent",
            "Manual", ""),
      Entry(<<2024, 1, 2>>, "00:00", "Expense", "Rent", 50, "Bank Transfer",
            "Main Account", "", "Recurring Auto", "#recurring") }

BankColumns == {"Date", "Narration ", "Withdrawal Amt.", "Deposit Amt."}
BankRow(date, narration, withdrawal, deposit) ==
    [h \in BankColumns |->
        CASE h = "Date" -> date
          [] h = "Narration " -> narration
          [] h = "Withdrawal Amt." -> withdrawal
          [] h = "Deposit Amt." -> deposit]
BankRows ==
    { BankRow("15/01/2024", "Rent", <<50>>, <<>>),
      BankRow("01/02/2024", "AMAZON purchase", <<100>>, <<0>>),
      BankRow("01/02/2024", "Salary", <<>>, <<50>>),
      BankRow("31/31/2024", "Rent", <<50>>, <<0>>) }

GenericColumns == {"Txn Date", "Debit", "Particulars"}
GenericRow(date, amount, description) ==
    [h \in GenericColumns |->
        CASE h = "Txn Date" -> date
          [] h = "Debit" -> amount
          [] h = "Particulars" -> description]
GenericRows ==
    { GenericRow("01/02/2024", <<-20>>, "Amazon refund") }

SeqsUpTo(S, n) == UNION {[1..k -> S] : k \in 0..n}

UploadFiles ==
    {[columns |-> BankColumns, rows |-> rows] :
        rows \in SeqsUpTo(BankRows, MaxUploadRows)}
    \cup {[columns |-> GenericColumns, rows |-> rows] :
             rows \in SeqsUpTo(GenericRows, MaxUploadRows)}

RuleKeywords == {"amazon"}
RuleCategories == {"Shopping"}

WriteStores(stores) ==
    /\ sheet' = stores.sheet
    /\ csvFile' = stores.csvFile

AddEntry(e, load, save) ==
    LET loaded == load_data(load)
    IN  /\ Len(loaded.rows) < MaxLedger
        /\ WriteStores(save_data(add_entry(e, loaded.rows), save))
        /\ accountsFile' = loaded.accounts
        /\ call' = [op |-> "add_entry", ret |-> TRUE, entry |-> e,
                    load |-> load, save |-> save]
        /\ UNCHANGED <<categoriesFile, registry, given, requested, writerVars,
                       backend, rulesFile, recurringFile>>

ProcessUpload(file, load, save) ==
    LET loaded == load_data(load)
        r == process_upload(file, loaded.rows, loaded.accounts, rulesFile)
    IN  /\ Len(r.df) <= MaxLedger
        /\ IF r.save THEN WriteStores(save_data(r.df, save))
           ELSE UNCHANGED <<sheet, csvFile>>
        /\ accountsFile' = IF r.reached
                           THEN GetAllAccounts(loaded.accounts)
                           ELSE loaded.accounts
        /\ call' = [op |-> "process_upload", file |-> file, count |-> r.count,
                    error |-> r.error, load |-> load, save |-> save,
                    again |-> (call.op = "process_upload" /\ call.file = file)]
        /\ UNCHANGED <<categoriesFile, registry, given, requested, writerVars,
                       backend, rulesFile, recurringFile>>

\* app.py 391-394: rules[new_keyword] = new_category; save_rules(rules)
AddRule(keyword, category) ==
    /\ rulesFile' =
          IF \E k \in DOMAIN rulesFile : rulesFile[k][1] = keyword
          THEN [k \in DOMAIN rulesFile |->
                   IF rulesFile[k][1] = keyword THEN <<keyword, category>>
                   ELSE rulesFile[k]]
          ELSE Append(rulesFile, <<keyword, category>>)
    /\ call' = [op |-> "save_rules", ret |-> TRUE]
    /\ UNCHANGED <<accountsFile, categoriesFile, registry, given, requested,
                   writerVars, backend, csvFile, sheet, recurringFile>>

InitLedger ==
    /\ InitStores
    /\ backend = "csv"
    /\ registry = "accounts"
    /\ call = NoCall
    /\ given = <<>>
    /\ requested = FALSE
    /\ pc = [w \in Writers |-> "idle"]
    /\ local = [w \in Writers |-> <<>>]
    /\ cycles = 0

NextLedger ==
    \/ \E e \in AddInputs, load \in LoadOutcomes, save \in SaveOutcomes :
          AddEntry(e, load, save)
    \/ \E file \in UploadFiles, load \in LoadOutcomes, save \in SaveOutcomes :
          ProcessUpload(file, load, save)
    \/ \E keyword \in RuleKeywords, category \in RuleCategories :
          AddRule(keyword, category)

SpecLedger == InitLedger /\ [][NextLedger]_vars

\* The remote backend: st.secrets selects "service_account" and every call
\* of get_google_sheet_client may succeed, return None or raise.
RemoteAddInputs ==
    { Entry(Today, "00:00", "Expense", "Rent", 50, "Cash", "Main Account", "Rent",
            "Manual", "") }

RemoteFiles ==
    {[columns |-> BankColumns, rows |-> rows] :
        rows \in { <<>>,
                   <<BankRow("01/02/2024", "AMAZON purchase", <<100>>, <<0>>)>>,
                   <<BankRow("01/02/2024", "AMAZON purchase", <<100>>, <<0>>),
                     BankRow("31/31/2024", "Rent", <<50>>, <<0>>)>> }}

InitRemote ==
    /\ InitStores
    /\ backend = "service_account"
    /\ registry = "accounts"
    /\ call = NoCall
    /\ given = <<>>
    /\ requested = FALSE
    /\ pc = [w \in Writers |-> "idle"]
    /\ local = [w \in Writers |-> <<>>]
    /\ cycles = 0

NextRemote ==
    \/ \E e \in RemoteAddInputs, load \in LoadOutcomes, save \in SaveOutcomes :
          AddEntry(e, load, save)
    \/ \E file \in RemoteFiles, load \in LoadOutcomes, save \in SaveOutcomes :
          ProcessUpload(file, load, save)

SpecRemote == InitRemote /\ [][NextRemote]_vars

\* The bank-statement branch of process_upload on one row, for every pair of
\* cells in the two amount columns: a number, or a cell that is empty or no
\* number.
BankCells == {<<>>} \cup {<<n>> : n \in (-MaxAmount)..MaxAmount}

InitPolarity ==
    /\ InitStores
    /\ backend = "csv"
    /\ registry = "accounts"
    /\ \E withdrawal \in BankCells, deposit \in BankCells :
          call = [op |-> "read_excel", withdrawal |-> withdrawal,
                  deposit |-> deposit]
    /\ given = <<>>
    /\ requested = FALSE
    /\ pc = [w \in Writers |-> "idle"]
    /\ local = [w \in Writers |-> <<>>]
    /\ cycles = 0

ImportBankRow ==
    /\ call.op = "read_excel"
    /\ LET file == [columns |-> BankColumns,
                    rows |-> <<BankRow("15/01/2024", "Rent", call.withdrawal,
                                       call.deposit)>>]
       IN  call' = [op |-> "process_upload", withdrawal |-> call.withdrawal,
                    deposit |-> call.deposit,
                    row |-> NewRows(file, accountsFile, rulesFile).rows[1]]
    /\ UNCHANGED <<accountsFile, categoriesFile, registry, given, requested,
                   writerVars, ledgerVars>>

NextPolarity == ImportBankRow

SpecPolarity == InitPolarity /\ [][NextPolarity]_vars

\* apply_categorization on one row under every rule list: the rules are the
\* dict of category_rules.json, so the keywords of a list are distinct.
CategorizeKeywords == {"amazon", "amazon.in", "india"}
CategorizeCategories == {"Shopping", "Travel"}
CategorizeDescriptions == {"AMAZON INDIA", "Amazon.in order", "Uber", NaN}

RuleLists ==
    {rules \in SeqsUpTo(CategorizeKeywords \X CategorizeCategories, MaxRules) :
        \A i, j \in DOMAIN rules : i # j => rules[i][1] # rules[j][1]}

InitCategorize ==
    /\ accountsFile = <<>>
    /\ categoriesFile = <<>>
    /\ csvFile = NoTable
    /\ sheet = NoTable
    /\ rulesFile \in RuleLists
    /\ recurringFile = <<>>
    /\ backend = "csv"
    /\ registry = "accounts"
    /\ call = NoCall
    /\ given = <<>>
    /\ requested = FALSE
    /\ pc = [w \in Writers |-> "idle"]
    /\ local = [w \in Writers |-> <<>>]
    /\ cycles = 0

Categorize(description) ==
    LET row == Entry(Today, "00:00", "Expense", "Uncategorized", 50,
                     "Bank Transfer", "Main Account", description,
                     "Paytm Import", "")
    IN  /\ call' = [op |-> "apply_categorization", row |-> row,
                    out |-> apply_categorization(<<row>>, rulesFile)[1]]
        /\ UNCHANGED <<accountsFile, categoriesFile, registry, given, requested,
                       writerVars, ledgerVars>>

NextCategorize == \E description \in CategorizeDescriptions : Categorize(description)

SpecCategorize == InitCategorize /\ [][NextCategorize]_vars

\* Imports over ledgers of up to MaxLedger rows, local backend: the merged
\* frame may hold up to MaxLedger + MaxUploadRows rows.
ImportFiles ==
    {[columns |-> BankColumns, rows |-> rows] :
        rows \in SeqsUpTo({ BankRow("15/01/2024", "Rent", <<50>>, <<>>),
                            BankRow("01/02/2024", "AMAZON purchase", <<100>>, <<0>>),
                            BankRow("01/02/2024", "Salary", <<>>, <<50>>) },
                          MaxUploadRows)}

ImportStatement(file) ==
    LET loaded == load_data("ok")
        r == process_upload(file, loaded.rows, loaded.accounts, rulesFile)
    IN  /\ Len(loaded.rows) <= MaxLedger
        /\ IF r.save THEN WriteStores(save_data(r.df, "ok"))
           ELSE UNCHANGED <<sheet, csvFile>>
        /\ accountsFile' = IF r.reached
                           THEN GetAllAccounts(loaded.accounts)
                           ELSE loaded.accounts
        /\ call' = [op |-> "process_upload", file |-> file, count |-> r.count,
                    error |-> r.error, load |-> "ok", save |-> "ok",
                    again |-> (call.op = "process_upload" /\ call.file = file)]
        /\ UNCHANGED <<categoriesFile, registry, given, requested, writerVars,
                       backend, rulesFile, recurringFile>>

NextImport ==
    \/ \E e \in AddInputs : AddEntry(e, "ok", "ok")
    \/ \E file \in ImportFiles : ImportStatement(file)
    \/ \E keyword \in RuleKeywords, category \in RuleCategories :
          AddRule(keyword, category)

SpecImport == InitLedger /\ [][NextImport]_vars

\* The ledger together with the account registry, local backend.  The manual
\* form offers the names of the active accounts (app.py 290-297, 312).
FormAddEntry(account) ==
    LET accounts == GetAllAccounts(accountsFile)
        loaded == load_data("ok")
        e == Entry(Today, "00:00", "Expense", "Rent", 50, "Cash", account, "Rent",
                   "Manual", "")
    IN  /\ account \in {accounts[i].name : i \in ActiveOf(accounts)}
        /\ Len(loaded.rows) < MaxLedger
        /\ WriteStores(save_data(add_entry(e, loaded.rows), "ok"))
        /\ accountsFile' = accounts
        /\ call' = [op |-> "add_entry", ret |-> TRUE, entry |-> e,
                    load |-> "ok", save |-> "ok"]
        /\ UNCHANGED <<categoriesFile, registry, given, requested, writerVars,
                       backend, rulesFile, recurringFile>>

IntegrityFiles ==
    {[columns |-> BankColumns,
      rows |-> <<BankRow("01/02/2024", "Salary", <<>>, <<50>>)>>]}

NextIntegrity ==
    \/ \E name \in AccountNames, is_default \in BOOLEAN :
          CreateAccount(name, is_default)
    \/ \E name \in AccountNames, new_name \in AccountNames \cup {None} :
          UpdateAccount(name, new_name, None, "None")
    \/ \E name \in AccountNames : DeleteAccount(name)
    \/ \E account \in AccountNames : FormAddEntry(account)
    \/ \E file \in IntegrityFiles : ProcessUpload(file, "ok", "ok")

SpecIntegrity == InitLedger /\ [][NextIntegrity]_vars

\* save applied to any list, and then to the list it wrote
AccountLists ==
    SeqsUpTo([name : AccountNames, status : Statuses, is_default : BOOLEAN],
             MaxItems)

CategoryLists ==
    SeqsUpTo([name : CategoryNames, type : CategoryTypes, is_default : BOOLEAN],
             MaxItems)

InitNormalize ==
    /\ InitStores
    /\ backend = "csv"
    /\ registry \in {"accounts", "categories"}
    /\ given \in IF registry = "accounts" THEN AccountLists ELSE CategoryLists
    /\ call = NoCall
    /\ requested = FALSE
    /\ pc = [w \in Writers |-> "idle"]
    /\ local = [w \in Writers |-> <<>>]
    /\ cycles = 0

SaveGiven ==
    /\ call.op = "none"
    /\ accountsFile' = IF registry = "accounts" THEN SaveAccounts(given)
                       ELSE accountsFile
    /\ categoriesFile' = IF registry = "categories" THEN SaveCategories(given)
                         ELSE categoriesFile
    /\ call' = [op |-> "save", reg |-> registry]
    /\ UNCHANGED <<registry, given, requested, writerVars, ledgerVars>>

SaveAgain ==
    /\ call.op = "save"
    /\ accountsFile' = IF registry = "accounts" THEN SaveAccounts(accountsFile)
                       ELSE accountsFile
    /\ categoriesFile' = IF registry = "categories"
                         THEN SaveCategories(categoriesFile)
                         ELSE categoriesFile
    /\ call' = [op |-> "save_again", reg |-> registry]
    /\ UNCHANGED <<registry, given, requested, writerVars, ledgerVars>>

NextNormalize == SaveGiven \/ SaveAgain

SpecNormalize == InitNormalize /\ [][NextNormalize]_vars

\* Loading a ledger stored before the Account column existed
LegacyColumnSets ==
    {ColumnSet \ {"Account"}, {"Date", "Category", "Amount", "Description"}}

LegacyRows(columns) ==
    {[column \in columns |->
         CASE column = "Date" -> date
           [] column = "Amount" -> 50
           [] column = "Category" -> "Rent"
           [] column = "Description" -> description
           [] column = "Type" -> "Expense"
           [] column = "Time" -> "00:00"
           [] column = "Payment Method" -> "Cash"
           [] column = "Source" -> "Manual"
           [] column = "Tags" -> "#old"] :
        date \in {"2024-01-15", "2023-01-15"}, description \in {"Rent", "Uber"}}

LegacyTables ==
    UNION {{[columns |-> columns, rows |-> rows] :
              rows \in SeqsUpTo(LegacyRows(columns), MaxLedger) \ {<<>>}} :
           columns \in LegacyColumnSets}

\* accounts.json when the legacy ledger is first loaded: absent, seeded, or
\* after create_account("Savings", True)
LegacyRegistries ==
    {<<>>, SaveAccounts(DefaultAccounts),
     SaveAccounts(create_account(DefaultAccounts, "Savings", TRUE).list)}

InitLegacy ==
    /\ accountsFile \in LegacyRegistries
    /\ categoriesFile = <<>>
    /\ backend \in {"csv", "service_account"}
    /\ \E table \in LegacyTables :
          /\ csvFile = IF backend = "csv" THEN table ELSE NoTable
          /\ sheet = IF backend = "service_account" THEN table ELSE NoTable
    /\ rulesFile = <<>>
    /\ recurringFile = <<>>
    /\ registry = "accounts"
    /\ call = NoCall
    /\ given = <<>>
    /\ requested = FALSE
    /\ pc = [w \in Writers |-> "idle"]
    /\ local = [w \in Writers |-> <<>>]
    /\ cycles = 0

LoadLegacy ==
    LET loaded == load_data("ok")
    IN  /\ call' = [op |-> "load_data", rows |-> loaded.rows]
        /\ accountsFile' = loaded.accounts
        /\ UNCHANGED <<categoriesFile, registry, given, requested, writerVars,
                       ledgerVars>>

NextLegacy == LoadLegacy

SpecLegacy == InitLegacy /\ [][NextLegacy]_vars

\* Recurring profiles: the settings form appends a profile (app.py 439-450),
\* the dashboard lists get_pending_recurring(load_data()) and "Mark as Paid"
\* calls add_entry for a listed profile (app.py 247-271).
ProfileNames == {"Rent", ""}

Profile(name) ==
    [name |-> name, amount |-> 50, category |-> "Rent", type |-> "Expense"]

\* manual entries that must not settle the profile "Rent": another month,
\* another year, another case
RecurringAddInputs ==
    { Entry(<<2024, 2, 1>>, "00:00", "Expense", "Rent", 50, "Cash", "Main Account",
            "Rent", "Manual", ""),
      Entry(<<2023, 1, 15>>, "00:00", "Expense", "Rent", 50, "Cash", "Main Account",
            "Rent", "Manual", ""),
      Entry(Today, "00:00", "Expense", "Rent", 50, "Cash", "Main Account",
            "rent", "Manual", "") }

AddProfile(name) ==
    /\ Len(recurringFile) < MaxProfiles
    /\ recurringFile' = Append(recurringFile, Profile(name))
    /\ call' = [op |-> "save_recurring", ret |-> TRUE]
    /\ UNCHANGED <<accountsFile, categoriesFile, registry, given, requested,
                   writerVars, backend, csvFile, sheet, rulesFile>>

MarkAsPaid(k) ==
    LET pending == get_pending_recurring(load_data("ok").rows, recurringFile, Today)
        loaded == load_data("ok")
    IN  /\ k \in DOMAIN pending
        /\ Len(loaded.rows) < MaxLedger
        /\ LET p == pending[k]
               e == Entry(Today, "00:00", p.type, p.category, p.amount,
                          "Bank Transfer", "Main Account", p.name,
                          "Recurring Auto", "#recurring")
           IN  /\ WriteStores(save_data(add_entry(e, loaded.rows), "ok"))
               /\ call' = [op |-> "add_entry", ret |-> TRUE, entry |-> e,
                           load |-> "ok", save |-> "ok"]
        /\ accountsFile' = loaded.accounts
        /\ UNCHANGED <<categoriesFile, registry, given, requested, writerVars,
                       backend, rulesFile, recurringFile>>

NextRecurring ==
    \/ \E name \in ProfileNames : AddProfile(name)
    \/ \E k \in 1..MaxProfiles : MarkAsPaid(k)
    \/ \E e \in RecurringAddInputs : AddEntry(e, "ok", "ok")

SpecRecurring == InitLedger /\ [][NextRecurring]_vars

\* Two writers in add_entry, no lock around load_data -> concat -> save_data.
\* add_entry, line 247
AdderLoad(w) ==
    /\ pc[w] = "idle"
    /\ cycles < MaxCycles
    /\ local' = [local EXCEPT ![w] = load_data("ok").rows]
    /\ pc' = [pc EXCEPT ![w] = "loaded"]
    /\ accountsFile' = load_data("ok").accounts
    /\ UNCHANGED <<categoriesFile, registry, histVars, cycles, ledgerVars>>

\* mutant: the ledger is read again at the moment of the save
AdderSaveFresh(w, e) ==
    /\ pc[w] = "loaded"
    /\ Len(load_data("ok").rows) < MaxLedger
    /\ WriteStores(save_data(add_entry(e, load_data("ok").rows), "ok"))
    /\ call' = [op |-> "add_entry", ret |-> TRUE, entry |-> e,
                load |-> "ok", save |-> "ok"]
    /\ given' = Append(given, <<w, e>>)
    /\ pc' = [pc EXCEPT ![w] = "idle"]
    /\ local' = [local EXCEPT ![w] = <<>>]
    /\ cycles' = cycles + 1
    /\ UNCHANGED <<accountsFile, categoriesFile, registry, requested, backend,
                   rulesFile, recurringFile>>

\* add_entry, lines 248-263: the row is appended to the frame loaded at
\* line 247, the result is saved and True is returned
AdderSave(w, e) ==
    /\ pc[w] = "loaded"
    /\ Len(local[w]) < MaxLedger
    /\ WriteStores(save_data(add_entry(e, local[w]), "ok"))
    /\ call' = [op |-> "add_entry", ret |-> TRUE, entry |-> e,
                load |-> "ok", save |-> "ok"]
    /\ given' = Append(given, <<w, e>>)
    /\ pc' = [pc EXCEPT ![w] = "idle"]
    /\ local' = [local EXCEPT ![w] = <<>>]
    /\ cycles' = cycles + 1
    /\ UNCHANGED <<accountsFile, categoriesFile, registry, requested, backend,
                   rulesFile, recurringFile>>

NextAdders ==
    \/ \E w \in Writers : AdderLoad(w)
    \/ \E w \in Writers, e \in AddInputs : AdderSave(w, e)

SpecAdders == InitLedger /\ [][NextAdders]_vars

-----------------------------------------------------------------------------
(* Properties of the registries *)


\* the flags aside, the first Len(old) items of new are the items of old
SameButFlags(old, new) ==
    /\ Len(new) >= Len(old)
    /\ \A i \in DOMAIN old : [new[i] EXCEPT !.is_default = old[i].is_default] = old[i]

\* C1: every list save_accounts persists has at most one default account.
C1_OneDefaultAccount == Cardinality(Defaults(accountsFile)) <= 1

C1_Witness ==
    /\ call.reg = "accounts" /\ call.op = "set_default" /\ call.ret
    /\ Len(accountsFile) >= 2
    /\ Defaults(accountsFile) = {2}

\* C2: every list save_categories persists has at most one default category
\* of type Expense and at most one of type Income.
C2_OneDefaultPerType ==
    \A type \in CategoryTypes :
        Cardinality(DefaultsOfType(categoriesFile, type)) <= 1

\* C4: delete_account on the account that is default (the account the call
\* resolves to, the first with that name) returns False and changes nothing.
C4_DeleteDefaultRefused ==
    [][(/\ call'.reg = "accounts" /\ call'.op = "delete"
        /\ FirstNamed(accountsFile, call'.name) # 0
        /\ accountsFile[FirstNamed(accountsFile, call'.name)].is_default)
       => (call'.ret = FALSE /\ ~call'.saved /\ accountsFile' = accountsFile)]_vars

C4_Witness ==
    /\ call.reg = "accounts" /\ call.op = "delete" /\ ~call.ret
    /\ Len(accountsFile) >= 2
    /\ FirstNamed(accountsFile, call.name) # 0
    /\ accountsFile[FirstNamed(accountsFile, call.name)].is_default

\* C3: with two writers running unlocked load -> mutate -> save cycles on a
\* registry, every persisted list has at most one default per partition.
C3_OneDefaultUnderWriters ==
    /\ \A i, j \in Defaults(accountsFile) : i = j
    /\ \A i, j \in Defaults(categoriesFile) :
          categoriesFile[i].type = categoriesFile[j].type => i = j

\* the account half of C3 alone
WritersOneDefaultAccount == \A i, j \in Defaults(accountsFile) : i = j

NameTaken(reg, items, name) ==
    IF reg = "accounts" THEN \E i \in DOMAIN items : items[i].name = name
    ELSE \E i \in DOMAIN items : Lower(items[i].name) = Lower(name)

Persisted(reg) == IF reg = "accounts" THEN accountsFile ELSE categoriesFile
PersistedAfter(reg) == IF reg = "accounts" THEN accountsFile' ELSE categoriesFile'

\* the registry a call works on: the persisted list, the seed when it is empty
Loaded(reg) ==
    IF reg = "accounts" THEN GetAllAccounts(accountsFile)
    ELSE GetAllCategories(categoriesFile)

CreateContract(old, new, c) ==
    IF NameTaken(c.reg, old, c.name)
    THEN c.ret = FALSE /\ new = old
    ELSE /\ c.ret = TRUE
         /\ Len(new) = Len(old) + 1
         /\ SameButFlags(old, new)
         /\ new[Len(new)].name = c.name

\* C5 as stated: create is judged against the persisted registry.
C5_AsStated ==
    [][call'.op = "create"
       => CreateContract(Persisted(call'.reg), PersistedAfter(call'.reg), call')]_vars

\* C5 as amended: create returns False, and persists nothing but the seed of
\* an empty registry, when the name exists (same case for accounts, any case
\* for categories) in the registry it loads; otherwise it returns True and
\* the persisted list is the loaded one plus exactly one item.
C5_CreateContract ==
    [][call'.op = "create"
       => CreateContract(Loaded(call'.reg), PersistedAfter(call'.reg), call')]_vars

C5_Witness ==
    /\ call.reg = "categories" /\ call.op = "create" /\ call.name = "OTHERS"
    /\ ~call.ret
    /\ \E i \in DOMAIN categoriesFile : categoriesFile[i].name = "Others"

\* C6: no two accounts have the same name, no two categories have names
\* equal ignoring case.
C6_UniqueNames ==
    /\ \A i, j \in DOMAIN accountsFile :
          i # j => accountsFile[i].name # accountsFile[j].name
    /\ \A i, j \in DOMAIN categoriesFile :
          i # j => Lower(categoriesFile[i].name) # Lower(categoriesFile[j].name)

\* C7 as stated: while no call has asked for a default, an Active account
\* exists only with exactly one default, the first Active account.
C7_AsStated ==
    (~requested /\ call.reg = "accounts" /\ call.saved
        /\ ActiveOf(accountsFile) # {})
    => Defaults(accountsFile) = {Min(ActiveOf(accountsFile))}

\* C7 as amended: when save_accounts is handed a list with no default and at
\* least one Active account, the persisted list has exactly one default, the
\* first Active account in list order.
C7_PromoteFirstActive ==
    (call.reg = "accounts" /\ call.saved /\ Defaults(given) = {}
        /\ ActiveOf(given) # {})
    => Defaults(accountsFile) = {Min(ActiveOf(given))}

C7_Witness ==
    /\ call.reg = "accounts" /\ call.saved /\ Defaults(given) = {}
    /\ Len(given) >= 2
    /\ given[1].status = "Inactive"
    /\ Defaults(accountsFile) = {2}

\* C8: when save is handed several defaults of one partition, exactly the
\* last of them in list order is default afterwards.
C8_LastDefaultWins ==
    /\ (call.reg = "accounts" /\ Cardinality(Defaults(given)) >= 2)
       => Defaults(accountsFile) = {Max(Defaults(given))}
    /\ \A type \in CategoryTypes :
          (call.reg = "categories"
              /\ Cardinality(DefaultsOfType(given, type)) >= 2)
          => DefaultsOfType(categoriesFile, type)
                = {Max(DefaultsOfType(given, type))}

\* C9: after a successful set_default(name) or create(name, is_default=True)
\* the named item is default and is the only default of its partition.
C9_RequestedDefaultIsSole ==
    (call.ret /\ (call.op = "set_default"
                    \/ (call.op = "create" /\ call.is_default = "True")))
    => IF call.reg = "accounts"
       THEN \E i \in DOMAIN accountsFile :
               /\ accountsFile[i].name = call.name
               /\ Defaults(accountsFile) = {i}
       ELSE \E i \in DOMAIN categoriesFile :
               /\ categoriesFile[i].name = call.name
               /\ DefaultsOfType(categoriesFile, categoriesFile[i].type) = {i}

-----------------------------------------------------------------------------
(* Properties of the ledger *)

\* C10: importing a file and then the same file again reports 0 rows added
\* the second time and leaves the persisted ledger as the first import left it.
C10_ImportTwice ==
    [][(call'.op = "process_upload" /\ call'.again)
       => (call'.count = 0 /\ sheet' = sheet /\ csvFile' = csvFile)]_vars

\* the indices of the rows that no earlier row of the table shares a triple with
FirstOfTriple(rows) ==
    {i \in DOMAIN rows : \A j \in 1..(i - 1) : Triple(rows[j]) # Triple(rows[i])}

C12_CountNeverNegative ==
    call.op = "process_upload" => call.count >= 0

\* C13: an import that returns an error returns the count 0 and leaves both
\* stores of the ledger, the sheet and the local file, as they were.
C13_ErrorWritesNothing ==
    [][(call'.op = "process_upload" /\ call'.error)
       => (call'.count = 0 /\ sheet' = sheet /\ csvFile' = csvFile)]_vars

\* an import failed on the second row of a statement whose first row is
\* new to a ledger that holds rows
C13_Witness ==
    /\ call.op = "process_upload"
    /\ call.error
    /\ Len(call.file.rows) = 2
    /\ Ledger.rows # <<>>
    /\ \A i \in DOMAIN Ledger.rows : Ledger.rows[i]["Source"] = "Manual"

\* C14: a row with a date or an amount that cannot be parsed never aborts the
\* import: no import returns an error (the statements of the model raise
\* nowhere else than on such a cell).
C14_MalformedRowTolerated ==
    call.op = "process_upload" => ~call.error

\* C15: add is a pure append: after add_entry the persisted ledger is the
\* ledger persisted before the call followed by the one new row.
C15_AddIsPureAppend ==
    [][call'.op = "add_entry"
       => Ledger'.rows
             = Ledger.rows \o StoreTable(<<call'.entry>>, backend = "csv").rows]_vars

\* C16: every save also writes the local file: after add_entry, and after an
\* import that saves, the local file holds exactly the rows handed to save_data.
C16_LocalMirrorWritten ==
    [][/\ call'.op = "add_entry"
          => csvFile' = StoreTable(add_entry(call'.entry,
                                             load_data(call'.load).rows), TRUE)
       /\ (call'.op = "process_upload" /\ call'.count > 0)
          => csvFile' = StoreTable(process_upload(call'.file,
                                                  load_data(call'.load).rows,
                                                  load_data(call'.load).accounts,
                                                  rulesFile).df, TRUE)]_vars

\* C17: when the remote backend is selected and the remote read of a call
\* fails (no client, or the read raises), the call works on the contents of
\* the local file, and the backend selection stays as it was.
C17_ReadFallsBack ==
    [][(/\ backend = "service_account"
        /\ call'.op = "add_entry"
        /\ call'.load \in {"none", "raise"})
       => /\ backend' = backend
          /\ LET df == add_entry(call'.entry, LoadCsv(csvFile, accountsFile).rows)
             IN  IF call'.save = "ok" THEN sheet' = StoreTable(df, FALSE)
                 ELSE csvFile' = StoreTable(df, TRUE)]_vars

\* C18: a lost update is reachable: the save of add_entry persists the rows
\* its writer loaded followed by its own row, whatever the other writer has
\* saved since that load.
C18_SaveOverwritesWithSnapshot ==
    [][\A w \in Writers :
          (pc[w] = "loaded" /\ pc'[w] = "idle")
          => Ledger'.rows = StoreTable(Append(local[w], call'.entry), TRUE).rows]_vars

\* both writers' add_entry returned True, the second to return had loaded
\* before the first saved, and only its row is in the ledger
C18_Witness ==
    /\ Len(given) = 2
    /\ given[1][1] # given[2][1]
    /\ given[1][2] # given[2][2]
    /\ Ledger.rows = StoreTable(<<given[2][2]>>, TRUE).rows
    /\ \A w \in Writers : pc[w] = "idle"

\* C19: every row ever persisted has Amount >= 0.
C19_AmountNonNegative ==
    /\ \A i \in DOMAIN csvFile.rows : csvFile.rows[i]["Amount"] >= 0
    /\ \A i \in DOMAIN sheet.rows : sheet.rows[i]["Amount"] >= 0

C21_PendingIffUnpaid ==
    LET paid(p) ==
            \E i \in DOMAIN Ledger.rows :
               /\ ParseDate(Ledger.rows[i]["Date"])[1] = Today[1]
               /\ ParseDate(Ledger.rows[i]["Date"])[2] = Today[2]
               /\ Ledger.rows[i]["Description"] = p.name
    IN  get_pending_recurring(load_data("ok").rows, recurringFile, Today)
           = SelectSeq(recurringFile, LAMBDA p : ~paid(p))

\* C22: categorization sets a row's Category to a rule's category iff the
\* rule's keyword is a case-insensitive substring of the Description; of
\* several matching rules the last in insertion order wins; a row that no
\* rule matches keeps its Category.
C22_SubstringRuleWins ==
    call.op = "apply_categorization" =>
       LET matching == {k \in DOMAIN rulesFile :
                           ContainsLiteral(call.row["Description"], rulesFile[k][1])}
       IN  call.out["Category"] =
              IF matching = {} THEN call.row["Category"]
              ELSE rulesFile[Max(matching)][2]

C24_LegacyRowsStamped ==
    call.op = "load_data" =>
       /\ Len(call.rows) = Len(Ledger.rows)
       /\ \A i \in DOMAIN call.rows :
             call.rows[i]["Account"] = DefaultAccountName(accountsFile)

\* the number of rows of a table equal to row
Multiplicity(rows, row) == Cardinality({i \in DOMAIN rows : rows[i] = row})

\* C25: an import never removes or alters a row the ledger already holds:
\* every stored row, ledgers with equal triples included, is stored after the
\* import as often as before, with the same Category.
C25_ImportKeepsRows ==
    [][call'.op = "process_upload" =>
          \A i \in DOMAIN csvFile.rows :
             Multiplicity(csvFile'.rows, csvFile.rows[i])
                >= Multiplicity(csvFile.rows, csvFile.rows[i])]_vars

\* C26: after any sequence of add, import, create_account, update_account
\* (renames included) and delete_account, the Account of every ledger entry
\* is the name of an account of the registry.
C26_AccountsExist ==
    \A i \in DOMAIN Ledger.rows :
       \E k \in DOMAIN GetAllAccounts(accountsFile) :
          GetAllAccounts(accountsFile)[k].name = Ledger.rows[i]["Account"]

\* C27 as stated: from the seeded registry, after any sequence of create,
\* update (of the name, the status, or is_default to true or false),
\* set_default and delete, the persisted account registry is non-empty and has
\* exactly one default.
C27_NonEmptyOneDefault ==
    (registry = "accounts" /\ call.op # "none") =>
       /\ accountsFile # <<>>
       /\ Cardinality(Defaults(accountsFile)) = 1

\* C27, amended: after any such sequence the persisted account registry has at
\* most one default, and exactly one whenever it holds an Active account.
C27_OneDefaultWhileActive ==
    (registry = "accounts" /\ call.op # "none") =>
       /\ Cardinality(Defaults(accountsFile)) <= 1
       /\ ActiveOf(accountsFile) # {} => Cardinality(Defaults(accountsFile)) = 1

C27_Witness ==
    /\ call.reg = "accounts" /\ call.op = "update" /\ call.is_default = "False"
    /\ call.saved
    /\ Defaults(given) = {}
    /\ Len(accountsFile) = 2
    /\ Cardinality(Defaults(accountsFile)) = 1

\* C28: the default-enforcement of save is idempotent: applied to a list it
\* has written, of accounts or of categories, it changes no is_default flag.
C28_SaveIdempotent ==
    [][call'.op = "save_again" =>
          /\ accountsFile' = accountsFile
          /\ categoriesFile' = categoriesFile]_vars

=============================================================================
